---- MODULE Spec2Model ----
(***************************************************************************)
(* The DeepSeek provider of crates/goose/src/providers/deepseek.rs as a    *)
(* state machine: one completion call (complete -> post -> the SSE loop ->  *)
(* normalisation) and one directory fetch (fetch_supported_models_async).   *)
(*                                                                         *)
(* Text is modelled at the level the code works on.  A response body is a   *)
(* sequence of bytes (naturals below 256), a decoded chunk is a sequence of *)
(* Unicode scalar values, and strings that the code compares, slices or     *)
(* sorts are sequences of such values.  The JSON text of a stream frame is  *)
(* abbreviated to three bytes, '{' k '}', k naming the frame in Frames: a   *)
(* proper part of it is no JSON text, as with the real JSON.               *)
(***************************************************************************)
EXTENDS Integers, Sequences, FiniteSets, TLC

VARIABLES
    pc,         \* where the call stands: "new" (provider not built), "idle", "request"
                \* (payload built), "streaming",
                \* "done" (ran to its return) or "failed" (left early on a transport error)
    op,         \* the operation the provider was asked for: "none", "complete", "fetch"
    payload,    \* complete's local `payload` (the value create_request returned)
    posts,      \* number of POST requests issued by the call
    sent,       \* the JSON body the POST carried, NoPayload before the request
    status,     \* HTTP status of the response, 0 when there is none
    body,       \* ghost: the whole body of the response
    wire,       \* body bytes of the response that the transport has not delivered yet
    nchunks,    \* chunks delivered so far
    collector,  \* the OAIStreamCollector of the call
    shadow,     \* ghost: the collector of the same run with the unparsable data lines left out
    log,        \* ghost: what the loop did with each candidate line, in order
    aligned,    \* ghost: every chunk so far ended at a line boundary
    json,       \* the JSON value of the directory-fetch response, NoJson when there is none
    result,     \* what the operation returned, NoResult while it runs
    header_spec,    \* the DEEPSEEK_CUSTOM_HEADERS string from_env reads, None when unset
    custom_headers, \* the provider's custom_headers field
    calls       \* the completion calls in flight on a shared provider, by call

auxVars == <<header_spec, custom_headers, calls>>

vars == <<pc, op, payload, posts, sent, status, body, wire, nchunks, collector, shadow, log, aligned, json, result, header_spec, custom_headers, calls>>

\* ------------------------------------------------------------------ bounds
MaxLines == 3
MaxChunks == 2
MaxEntries == 3
\* Longest DEEPSEEK_CUSTOM_HEADERS string tried.
MaxHeaderLen == 6

\* ------------------------------------------------------------------ text
\* "data: " (line 119) and "[DONE]" (line 123) as their bytes.
DataPrefix == <<100, 97, 116, 97, 58, 32>>
Sentinel == <<91, 68, 79, 78, 69, 93>>

\* char::is_whitespace, the set str::trim strips (line 118).
WhiteSpace ==
    (9..13) \cup {32, 133, 160, 5760} \cup (8192..8202) \cup {8232, 8233, 8239, 8287, 12288}

\* String::from_utf8_lossy (line 115) on bodies of ASCII and two-byte sequences:
\* a well-formed two-byte sequence is one scalar value, any other byte above
\* 127 becomes U+FFFD.
RECURSIVE Utf8Lossy(_, _)
Utf8Lossy(b, i) ==
    IF i > Len(b) THEN <<>>
    ELSE IF b[i] < 128 THEN <<b[i]>> \o Utf8Lossy(b, i + 1)
    ELSE IF b[i] \in 194..223 /\ i < Len(b) /\ b[i + 1] \in 128..191
         THEN <<(b[i] - 192) * 64 + (b[i + 1] - 128)>> \o Utf8Lossy(b, i + 2)
    ELSE <<65533>> \o Utf8Lossy(b, i + 1)

from_utf8_lossy(chunk) == Utf8Lossy(chunk, 1)

\* str::lines (line 117): split after every "\n", drop the "\n" and a "\r"
\* right before it; a last line without "\n" counts when it is not empty.
StripCR(l) ==
    IF Len(l) > 0 /\ l[Len(l)] = 13 THEN SubSeq(l, 1, Len(l) - 1) ELSE l

RECURSIVE LinesFrom(_, _, _)
LinesFrom(t, i, start) ==
    IF i > Len(t)
    THEN IF start > Len(t) THEN <<>> ELSE <<SubSeq(t, start, Len(t))>>
    ELSE IF t[i] = 10
         THEN <<StripCR(SubSeq(t, start, i - 1))>> \o LinesFrom(t, i + 1, i + 1)
         ELSE LinesFrom(t, i + 1, start)

\* Variant: the lines of a chunk taken last to first.
linesReversed(text) ==
    LET ls == LinesFrom(text, 1, 1) IN [i \in 1..Len(ls) |-> ls[Len(ls) + 1 - i]]
lines(text) == LinesFrom(text, 1, 1)

\* str::trim (line 118).
RECURSIVE TrimStart(_, _)
TrimStart(l, i) ==
    IF i <= Len(l) /\ l[i] \in WhiteSpace THEN TrimStart(l, i + 1) ELSE i

RECURSIVE TrimEnd(_, _)
TrimEnd(l, j) ==
    IF j >= 1 /\ l[j] \in WhiteSpace THEN TrimEnd(l, j - 1) ELSE j

trim(l) == SubSeq(l, TrimStart(l, 1), TrimEnd(l, Len(l)))

\* str::starts_with (line 119).
starts_with(s, p) == Len(s) >= Len(p) /\ SubSeq(s, 1, Len(p)) = p

\* ------------------------------------------------------------------ frames
\* Tool-call indices the modelled frames use.
ToolIndex == {0, 1}

NoUsage == [kind |-> "none"]
BadUsage == [kind |-> "malformed"]
OkUsage(p, c, t) == [kind |-> "ok", prompt_tokens |-> p, completion_tokens |-> c, total_tokens |-> t]

\* "Hel" and "lo", two content fragments.
Hel == <<72, 101, 108>>
Lo == <<108, 111>>

EmptyFrame == [content |-> <<>>, tool_calls |-> <<>>, finish_reason |-> "", usage |-> NoUsage]

\* The stream frames of the model, by the byte that names them in the JSON text:
\*   '1'  content "Hel"
\*   '2'  content "lo", finish_reason "stop", usage {1, 2, 3}
\*   '3'  tool call 0: name "f", arguments '{"a":'
\*   '4'  tool call 0: arguments '1}'
\*   '5'  tool call 1: name "g", arguments '2'; a usage object of the wrong shape
\*   'E'  {"error":{"message":"bad key"}}: no recognised key, so an empty frame
Frames ==
    (49 :> [EmptyFrame EXCEPT !.content = Hel]) @@
    (50 :> [EmptyFrame EXCEPT !.content = Lo, !.finish_reason = "stop",
                              !.usage = OkUsage(1, 2, 3)]) @@
    (51 :> [EmptyFrame EXCEPT !.tool_calls =
                <<[index |-> 0, name |-> "f", arguments |-> <<123, 34, 97, 34, 58>>]>>]) @@
    (52 :> [EmptyFrame EXCEPT !.tool_calls =
                <<[index |-> 0, name |-> "", arguments |-> <<49, 125>>]>>]) @@
    (53 :> [EmptyFrame EXCEPT !.tool_calls =
                <<[index |-> 1, name |-> "g", arguments |-> <<50>>]>>, !.usage = BadUsage]) @@
    (69 :> EmptyFrame)

\* The JSON text of frame k, and serde_json::from_str::<OAIStreamChunk> (line 126).
FrameText(k) == <<123, k, 125>>

from_str(text) ==
    IF Len(text) = 3 /\ text[1] = 123 /\ text[3] = 125 /\ text[2] \in DOMAIN Frames
    THEN [ok |-> TRUE, ch |-> Frames[text[2]]]
    ELSE [ok |-> FALSE, ch |-> EmptyFrame]

\* ------------------------------------------------------------------ collector
NoTool == [present |-> FALSE, name |-> "", arguments |-> <<>>]

\* OAIStreamCollector::new (line 110).
NewCollector ==
    [content |-> <<>>, tool_calls |-> [i \in ToolIndex |-> NoTool],
     finish_reason |-> "", usage |-> NoUsage]

\* One tool-call fragment merged into the map by its index.
MergeFragment(tools, f) ==
    [tools EXCEPT ![f.index] =
        [present |-> TRUE,
         name |-> IF f.name # "" THEN f.name ELSE @.name,
         arguments |-> @.arguments \o f.arguments]]

RECURSIVE MergeFragments(_, _, _)
MergeFragments(tools, fs, i) ==
    IF i > Len(fs) THEN tools ELSE MergeFragments(MergeFragment(tools, fs[i]), fs, i + 1)

\* OAIStreamCollector::add_chunk (line 127).
add_chunk(c, ch) ==
    [content |-> c.content \o ch.content,
     tool_calls |-> MergeFragments(c.tool_calls, ch.tool_calls, 1),
     finish_reason |-> IF ch.finish_reason # "" THEN ch.finish_reason ELSE c.finish_reason,
     usage |-> IF ch.usage.kind # "none" THEN ch.usage ELSE c.usage]

\* OAIStreamCollector::build_response (line 133): the assembled response value.
build_response(c) ==
    [content |-> c.content, tool_calls |-> c.tool_calls,
     finish_reason |-> c.finish_reason, usage |-> c.usage]

\* ------------------------------------------------------------------ the loop of post
\* The loop state: the collector and the ghost log of what each candidate line did.
LoopState(c, l) == [collector |-> c, log |-> l]

RECURSIVE ForLines(_, _, _)

\* Line 123-125: the sentinel breaks out of the `for` over the lines of this chunk.
OnSentinel(ls, i, st) == LoopState(st.collector, Append(st.log, "done"))

\* Line 127: a parsed frame is folded into the collector.
\* Variant: the frame folded into a collector created anew for it.
OnFrameFresh(ls, i, st, ch) ==
    ForLines(ls, i + 1, LoopState(add_chunk(NewCollector, ch), Append(st.log, "frame")))
OnFrame(ls, i, st, ch) ==
    ForLines(ls, i + 1, LoopState(add_chunk(st.collector, ch), Append(st.log, "frame")))

\* Line 128: a payload that does not parse is skipped.
\* Variant: a parse failure leaves the `for` like the sentinel does.
OnParseErrorBreak(ls, i, st) == LoopState(st.collector, Append(st.log, "skip"))
OnParseError(ls, i, st) == ForLines(ls, i + 1, LoopState(st.collector, Append(st.log, "skip")))

\* Lines 117-130: `for line in text.lines()`.
ForLines(ls, i, st) ==
    IF i > Len(ls) THEN st
    ELSE LET tline == trim(ls[i]) IN
         IF ~starts_with(tline, DataPrefix) THEN ForLines(ls, i + 1, st)
         ELSE LET payload_ == SubSeq(tline, 7, Len(tline)) IN
              IF payload_ = Sentinel THEN OnSentinel(ls, i, st)
              ELSE LET r == from_str(payload_) IN
                   IF r.ok THEN OnFrame(ls, i, st, r.ch) ELSE OnParseError(ls, i, st)

\* Lines 115-130: one chunk through the body of the `while`.
ProcessChunk(chunk, st) == ForLines(lines(from_utf8_lossy(chunk)), 1, st)

\* A candidate line whose payload is neither the sentinel nor a frame.
IsUnparsable(line) ==
    LET tline == trim(line) IN
        /\ starts_with(tline, DataPrefix)
        /\ SubSeq(tline, 7, Len(tline)) # Sentinel
        /\ ~from_str(SubSeq(tline, 7, Len(tline))).ok

\* The same chunk with its unparsable data lines left out.
ProcessChunkWithout(chunk, st) ==
    ForLines(SelectSeq(lines(from_utf8_lossy(chunk)), LAMBDA l : ~IsUnparsable(l)), 1, st)


\* ------------------------------------------------------------------ complete
NoResult == [tag |-> "none"]
Ok(message, usage) == [tag |-> "Ok", message |-> message, usage |-> usage]

\* ProviderError::RequestFailed(cause) (lines 92, 94, 114, 135).
RequestFailed(cause) == [tag |-> "RequestFailed", cause |-> cause]
\* The `?` of line 104: a reqwest::Error of send() as a ProviderError.
TransportError(cause) == [tag |-> "RequestFailed", cause |-> cause]
UsageError(cause) == [tag |-> "UsageError", cause |-> cause]
\* ProviderError::ExecutionError(cause) (line 239).
ExecutionError(cause) == [tag |-> "ExecutionError", cause |-> cause]
\* ProviderError::Authentication(message) (line 219), the message as its characters.
Authentication(message) == [tag |-> "Authentication", message |-> message]

\* Usage::default (line 186).
UsageDefault == [input_tokens |-> 0, output_tokens |-> 0, total_tokens |-> 0]

\* formats::openai::get_usage (line 182).
get_usage(response) ==
    IF response.usage.kind = "ok"
    THEN [ok |-> TRUE,
          usage |-> [input_tokens |-> response.usage.prompt_tokens,
                     output_tokens |-> response.usage.completion_tokens,
                     total_tokens |-> response.usage.total_tokens]]
    ELSE [ok |-> FALSE,
          err |-> UsageError(IF response.usage.kind = "none" THEN "no usage" ELSE "bad usage")]

\* formats::openai::response_to_message (line 181): the assembled tool calls in
\* index order; a response without content and tool calls is the empty message.
RECURSIVE ToolCallsFrom(_, _)
ToolCallsFrom(tools, i) ==
    IF i \notin DOMAIN tools THEN <<>>
    ELSE (IF tools[i].present
          THEN <<[index |-> i, name |-> tools[i].name, arguments |-> tools[i].arguments]>>
          ELSE <<>>) \o ToolCallsFrom(tools, i + 1)

response_to_message(response) ==
    [ok |-> TRUE,
     message |-> [role |-> "assistant", content |-> response.content,
                  tool_calls |-> ToolCallsFrom(response.tool_calls, 0)]]

\* Lines 182-189: the usage of the response, the default on a UsageError.
\* Variant: a UsageError is returned like any other error.
UsageStrict(u) == IF u.ok THEN u ELSE [ok |-> FALSE, err |-> u.err]
\* Variant: only a missing usage object gives the default, a malformed one fails.
UsageOrDefaultIfMissing(u) ==
    IF u.ok THEN u
    ELSE IF u.err = UsageError("no usage") THEN [ok |-> TRUE, usage |-> UsageDefault]
    ELSE [ok |-> FALSE, err |-> u.err]
UsageOrDefault(u) ==
    IF u.ok THEN u
    ELSE IF u.err.tag = "UsageError" THEN [ok |-> TRUE, usage |-> UsageDefault]
    ELSE [ok |-> FALSE, err |-> u.err]

\* Lines 181-192: complete after post returned Ok(response).
\* Variant: a message without content and tool calls is an error.
CompleteWithContent(response) ==
    LET m == response_to_message(response)
        u == UsageOrDefault(get_usage(response))
    IN  IF ~m.ok THEN m.err
        ELSE IF m.message.content = <<>> /\ m.message.tool_calls = <<>>
             THEN ExecutionError("empty response")
        ELSE IF ~u.ok THEN u.err
        ELSE Ok(m.message, u.usage)
CompleteWith(response) ==
    LET m == response_to_message(response)
        u == UsageOrDefault(get_usage(response))
    IN  IF ~m.ok THEN m.err
        ELSE IF ~u.ok THEN u.err
        ELSE Ok(m.message, u.usage)

\* Lines 114 and 178: a chunk that fails to be read leaves post, and then complete,
\* through `?` with RequestFailed; the collector c is dropped with post's frame.
\* Variant: the frames accumulated so far are returned as a message.
OnChunkErrorPartial(c, cause) == CompleteWith(build_response(c))
OnChunkError(c, cause) == RequestFailed(cause)

\* ------------------------------------------------------------------ inputs
\* The request payloads create_request may hand to post, by their "stream" key.
NoPayload == [stream |-> "none", messages |-> ""]
Payloads == {[stream |-> s, messages |-> "history"] : s \in {"absent", "false", "true"}}

\* Lines 86-89: insert("stream", true) into post's own copy of the payload.
\* Variant: "stream" set only where the payload has no such key.
InsertStreamKeep(p) == IF p.stream = "absent" THEN [p EXCEPT !.stream = "true"] ELSE p
InsertStream(p) == [p EXCEPT !.stream = "true"]

\* The lines a server may send.
FrameLine(k) == DataPrefix \o FrameText(k) \o <<10>>
CrlfFrameLine(k) == DataPrefix \o FrameText(k) \o <<13, 10>>
DoneLine == DataPrefix \o Sentinel \o <<10>>
\* "data: " followed by U+00E9 in UTF-8: a payload that is no JSON text.
BadLine == DataPrefix \o <<195, 169, 10>>
\* {"error":{"message":"bad key"}}
ErrorText == FrameText(69)
BadKey == <<98, 97, 100, 32, 107, 101, 121>>

ContentLines == {FrameLine(49), CrlfFrameLine(50), DoneLine, BadLine}
ToolLines == {FrameLine(51), FrameLine(52), FrameLine(53)}

SeqsUpTo(S, n) == UNION {[1..k -> S] : k \in 0..n}

RECURSIVE Concat(_, _)
Concat(ss, i) == IF i > Len(ss) THEN <<>> ELSE ss[i] \o Concat(ss, i + 1)

Bodies ==
    {Concat(ls, 1) : ls \in SeqsUpTo(ContentLines, MaxLines) \cup SeqsUpTo(ToolLines, MaxLines)}

\* What the server may answer: a stream, a stream carrying the vendor's error
\* object, the error object as a plain JSON body, or a failure without a body.
Responses ==
    {[status |-> 200, body |-> b] : b \in Bodies}
    \cup {[status |-> 200, body |-> DataPrefix \o ErrorText \o <<10>>],
          [status |-> 401, body |-> ErrorText],
          [status |-> 500, body |-> <<>>]}

Causes == {"connection reset"}

\* ------------------------------------------------------------------ directory fetch
\* serde_json::Value, strings as the sequence of their characters.
NoJson == [t |-> "none"]
JNull == [t |-> "null"]
JNum(n) == [t |-> "num", n |-> n]
JStr(s) == [t |-> "str", s |-> s]
JArr(a) == [t |-> "arr", a |-> a]
JObj(o) == [t |-> "obj", o |-> o]
EmptyObject == JObj([k \in {} |-> JNull])

\* Option<T> as a sequence of at most one element.
None == <<>>
Some(x) == <<x>>

\* Value::get with a string key, Value::as_str, Value::as_array.
get(v, key) == IF v.t = "obj" /\ key \in DOMAIN v.o THEN Some(v.o[key]) ELSE None
as_str(v) == IF v.t = "str" THEN Some(v.s) ELSE None
as_array(v) == IF v.t = "arr" THEN Some(v.a) ELSE None

\* Option::and_then with Value::as_str and with Value::as_array, Option::unwrap_or.
and_then_as_str(o) == IF o = None THEN None ELSE as_str(o[1])
and_then_as_array(o) == IF o = None THEN None ELSE as_array(o[1])
unwrap_or(o, d) == IF o = None THEN d ELSE o[1]

\* "unknown error" (line 218).
UnknownError == <<117, 110, 107, 110, 111, 119, 110, 32, 101, 114, 114, 111, 114>>

\* Ord for String: bytewise lexicographic, a proper prefix first.
RECURSIVE StrLessFrom(_, _, _)
StrLessFrom(a, b, i) ==
    IF i > Len(b) THEN FALSE
    ELSE IF i > Len(a) THEN TRUE
    ELSE IF a[i] # b[i] THEN a[i] < b[i]
    ELSE StrLessFrom(a, b, i + 1)

StrLess(a, b) == StrLessFrom(a, b, 1)

\* Vec::sort (line 230), a stable sort, as insertion from the left.
RECURSIVE InsertSorted(_, _, _)
InsertSorted(xs, x, i) ==
    IF i > Len(xs) \/ StrLess(x, xs[i])
    THEN SubSeq(xs, 1, i - 1) \o <<x>> \o SubSeq(xs, i, Len(xs))
    ELSE InsertSorted(xs, x, i + 1)

RECURSIVE SortFrom(_, _, _)
SortFrom(xs, i, acc) ==
    IF i > Len(xs) THEN acc ELSE SortFrom(xs, i + 1, InsertSorted(acc, xs[i], 1))

\* Variant: sorted, and of equal neighbours only the first is kept.
sortDedup(xs) ==
    LET s == SortFrom(xs, 1, <<>>)
        keep == {i \in 1..Len(s) : i = 1 \/ s[i] # s[i - 1]}
    IN  [k \in 1..Cardinality(keep) |->
            s[CHOOSE i \in keep : Cardinality({j \in keep : j <= i}) = k]]
\* Variant: the list left in the order of the entries.
sortKeep(xs) == xs
sort(xs) == SortFrom(xs, 1, <<>>)

\* Lines 226-229: the string "id" of every entry that has one.
EntryId(m) == and_then_as_str(get(m, "id"))

RECURSIVE FilterMapIds(_, _)
FilterMapIds(data, i) ==
    IF i > Len(data) THEN <<>> ELSE EntryId(data[i]) \o FilterMapIds(data, i + 1)

\* Lines 214-220: the message of the top-level error object.
ErrorMessage(err_obj) == unwrap_or(and_then_as_str(get(err_obj, "message")), UnknownError)

OkModels(models) == [tag |-> "Ok", models |-> models]

\* Lines 214-231: fetch_supported_models_async once the JSON is there.
\* Variant: the "data" array looked at before the "error" field.
FetchReturnDataFirst(j) ==
    LET data == and_then_as_array(get(j, "data")) IN
    IF data # None THEN OkModels(Some(sort(FilterMapIds(data[1], 1))))
    ELSE IF get(j, "error") # None THEN Authentication(ErrorMessage(get(j, "error")[1]))
    ELSE UsageError("Missing data field in JSON response")
\* Variant: Ok(None) when there is no "data" array.
FetchReturnNoData(j) ==
    IF get(j, "error") # None
    THEN Authentication(ErrorMessage(get(j, "error")[1]))
    ELSE LET data == and_then_as_array(get(j, "data")) IN
         IF data = None THEN OkModels(None)
         ELSE OkModels(Some(sort(FilterMapIds(data[1], 1))))
FetchReturn(j) ==
    IF get(j, "error") # None
    THEN Authentication(ErrorMessage(get(j, "error")[1]))
    ELSE LET data == and_then_as_array(get(j, "data")) IN
         IF data = None THEN UsageError("Missing data field in JSON response")
         ELSE OkModels(Some(sort(FilterMapIds(data[1], 1))))

\* The responses of the models endpoint.
IdA == <<97>>
IdB == <<98>>
IdAB == <<97, 98>>
Entries ==
    {JObj("id" :> JStr(IdA)), JObj("id" :> JStr(IdB)), JObj("id" :> JStr(IdAB)),
     JObj("id" :> JNum(5)), EmptyObject}
ErrorValues ==
    {JObj("message" :> JStr(BadKey)), JObj("message" :> JNum(5)), EmptyObject, JNull}
DataValues == {JArr(a) : a \in SeqsUpTo(Entries, MaxEntries)} \cup {JStr(IdA)}
FetchJsons ==
    {JObj("data" :> d) : d \in DataValues}
    \cup {JObj("error" :> e) : e \in ErrorValues}
    \cup {JObj(("error" :> e) @@ ("data" :> d)) : e \in ErrorValues, d \in DataValues}
    \cup {EmptyObject, JNull}


\* ------------------------------------------------------------------ custom headers
Comma == 44
EqualsSign == 61

\* str::split(sep) from position i on, the current piece starting at start:
\* one piece more than there are separators, empty pieces included.
RECURSIVE SplitFrom(_, _, _, _)
SplitFrom(s, sep, i, start) ==
    IF i > Len(s) THEN <<SubSeq(s, start, Len(s))>>
    ELSE IF s[i] = sep THEN <<SubSeq(s, start, i - 1)>> \o SplitFrom(s, sep, i + 1, i + 1)
    ELSE SplitFrom(s, sep, i + 1, start)

split(s, sep) == SplitFrom(s, sep, 1, 1)

\* str::find: the first position of c at or after i, 0 when there is none.
RECURSIVE FindFrom(_, _, _)
FindFrom(s, c, i) ==
    IF i > Len(s) THEN 0
    ELSE IF s[i] = c THEN i
    ELSE FindFrom(s, c, i + 1)

\* str::split_once(delim): the text before and after the first delim.
split_once(s, delim) ==
    LET i == FindFrom(s, delim, 1)
    IN  IF i = 0 THEN None
        ELSE Some([key |-> SubSeq(s, 1, i - 1), value |-> SubSeq(s, i + 1, Len(s))])

\* HashMap::new() and HashMap::insert: one value per key, the new one replaces.
EmptyMap == [k \in {} |-> <<>>]

\* Variant: a key already present keeps its value.
insert_keep(h, k, v) == [x \in DOMAIN h \cup {k} |-> IF x \in DOMAIN h THEN h[x] ELSE v]
insert(h, k, v) == [x \in DOMAIN h \cup {k} |-> IF x = k THEN v ELSE h[x]]

\* Lines 247-251: the loop over the pairs, from pair i on.
RECURSIVE ForPairs(_, _, _)
ForPairs(headers, pairs, i) ==
    IF i > Len(pairs) THEN headers
    ELSE LET kv == split_once(pairs[i], EqualsSign)
         IN  IF kv = None THEN ForPairs(headers, pairs, i + 1)
             ELSE ForPairs(insert(headers, trim(kv[1].key), trim(kv[1].value)), pairs, i + 1)

\* Lines 245-253.
parse_custom_headers(s) == ForPairs(EmptyMap, split(s, Comma), 1)

\* The characters of the strings tried: ',', '=', ' ', 'A' and '1'.
HeaderChars == {Comma, EqualsSign, 32, 65, 49}

HeaderSpecs == SeqsUpTo(HeaderChars, MaxHeaderLen)

\* ------------------------------------------------------------------ embeddings
OkEmbeddings(vectors) == [tag |-> "Ok", vectors |-> vectors]
Boolean(b) == [tag |-> "bool", value |-> b]

\* Lines 234-236.
supports_embeddings == FALSE

\* Lines 238-242: the texts are not looked at.
\* Variant: an empty list of vectors instead of the error.
create_embeddings_empty(texts) == OkEmbeddings(<<>>)
create_embeddings(texts) == ExecutionError("DeepSeek does not support embeddings")

\* The texts a caller may pass.
Texts == SeqsUpTo({Hel, <<>>}, 2)

\* No completion call is in flight.
NoCalls == <<>>

\* ------------------------------------------------------------------ actions
Init ==
    /\ pc = "idle"
    /\ op = "none"
    /\ payload = NoPayload
    /\ posts = 0
    /\ sent = NoPayload
    /\ status = 0
    /\ body = <<>>
    /\ wire = <<>>
    /\ nchunks = 0
    /\ collector = NewCollector
    /\ shadow = NewCollector
    /\ log = <<>>
    /\ aligned = TRUE
    /\ json = NoJson
    /\ result = NoResult
    /\ header_spec = <<>>
    /\ custom_headers = None
    /\ calls = NoCalls

\* Line 175: complete builds the request payload.
CreateRequest ==
    /\ pc = "idle"
    /\ payload' \in Payloads
    /\ op' = "complete"
    /\ pc' = "request"
    /\ UNCHANGED <<posts, sent, status, body, wire, nchunks, collector, shadow, log, aligned, json, result>>
    /\ UNCHANGED auxVars

\* Lines 91-95: the host or the base path is no URL; post returns before any request.
PostBadUrl ==
    /\ pc = "request"
    /\ result' = RequestFailed("Invalid base URL")
    /\ pc' = "failed"
    /\ UNCHANGED <<op, payload, posts, sent, status, body, wire, nchunks, collector, shadow, log, aligned, json>>
    /\ UNCHANGED auxVars

\* Lines 86-104 with send() failing: no response.
PostSendError ==
    /\ pc = "request"
    /\ sent' = InsertStream(payload)
    /\ posts' = posts + 1
    /\ \E cause \in Causes : result' = TransportError(cause)
    /\ pc' = "failed"
    /\ UNCHANGED <<op, payload, status, body, wire, nchunks, collector, shadow, log, aligned, json>>
    /\ UNCHANGED auxVars

\* Lines 86-111: the request is sent with post's copy of the payload, a response
\* arrives and the collector is created.
PostSend ==
    /\ pc = "request"
    /\ sent' = InsertStream(payload)
    /\ posts' = posts + 1
    /\ \E r \in Responses :
        /\ status' = r.status
        /\ body' = r.body
        /\ wire' = r.body
    /\ collector' = NewCollector
    /\ shadow' = NewCollector
    /\ pc' = "streaming"
    /\ UNCHANGED <<op, payload, nchunks, log, aligned, json, result>>
    /\ UNCHANGED auxVars

\* Lines 113-131: stream.next() yields the next n bytes of the body, which go
\* through the `for` over their lines.
RecvChunk ==
    /\ pc = "streaming"
    /\ wire # <<>>
    /\ \E n \in 1..Len(wire) :
        /\ nchunks + 1 < MaxChunks \/ n = Len(wire)
        /\ LET chunk == SubSeq(wire, 1, n)
               st == ProcessChunk(chunk, LoopState(collector, log))
           IN  /\ collector' = st.collector
               /\ log' = st.log
               /\ shadow' = ProcessChunkWithout(chunk, LoopState(shadow, <<>>)).collector
               /\ aligned' = (aligned /\ chunk[n] = 10)
        /\ wire' = SubSeq(wire, n + 1, Len(wire))
    /\ nchunks' = nchunks + 1
    /\ UNCHANGED <<pc, op, payload, posts, sent, status, body, json, result>>
    /\ UNCHANGED auxVars

\* Line 114: stream.next() yields an error; post returns it.
ChunkError ==
    /\ pc = "streaming"
    /\ \E cause \in Causes : result' = OnChunkError(collector, cause)
    /\ pc' = "failed"
    /\ UNCHANGED <<op, payload, posts, sent, status, body, wire, nchunks, collector, shadow, log, aligned, json>>
    /\ UNCHANGED auxVars

\* Lines 133-137 and 181-192: the stream ends, post returns the built response
\* and complete returns.
StreamEnd ==
    /\ pc = "streaming"
    /\ wire = <<>>
    /\ result' = CompleteWith(build_response(collector))
    /\ pc' = "done"
    /\ UNCHANGED <<op, payload, posts, sent, status, body, wire, nchunks, collector, shadow, log, aligned, json>>
    /\ UNCHANGED auxVars

\* Lines 198-212: the host is no URL, the GET fails, or the body is no JSON.
FetchError ==
    /\ pc = "idle"
    /\ \E cause \in Causes : result' = TransportError(cause)
    /\ op' = "fetch"
    /\ pc' = "failed"
    /\ UNCHANGED <<payload, posts, sent, status, body, wire, nchunks, collector, shadow, log, aligned, json>>
    /\ UNCHANGED auxVars

\* Lines 196-232: fetch_supported_models_async with a JSON response.
Fetch ==
    /\ pc = "idle"
    /\ \E j \in FetchJsons :
        /\ json' = j
        /\ result' = FetchReturn(j)
    /\ op' = "fetch"
    /\ pc' = "done"
    /\ UNCHANGED <<payload, posts, sent, status, body, wire, nchunks, collector, shadow, log, aligned>>
    /\ UNCHANGED auxVars

\* Lines 234-236: supports_embeddings.
SupportsEmbeddings ==
    /\ pc = "idle"
    /\ op' = "supports_embeddings"
    /\ result' = Boolean(supports_embeddings)
    /\ pc' = "done"
    /\ UNCHANGED <<payload, posts, sent, status, body, wire, nchunks, collector, shadow, log, aligned, json>>
    /\ UNCHANGED auxVars

\* Lines 238-242: create_embeddings.
CreateEmbeddings ==
    /\ pc = "idle"
    /\ op' = "create_embeddings"
    /\ \E texts \in Texts : result' = create_embeddings(texts)
    /\ pc' = "done"
    /\ UNCHANGED <<payload, posts, sent, status, body, wire, nchunks, collector, shadow, log, aligned, json>>
    /\ UNCHANGED auxVars

Next ==
    \/ CreateRequest
    \/ PostBadUrl
    \/ PostSendError
    \/ PostSend
    \/ RecvChunk
    \/ ChunkError
    \/ StreamEnd
    \/ FetchError
    \/ Fetch
    \/ SupportsEmbeddings
    \/ CreateEmbeddings

Spec == Init /\ [][Next]_vars

\* The provider before from_env: the configuration holds any header string or none.
InitHeaders ==
    /\ pc = "new"
    /\ op = "none"
    /\ payload = NoPayload
    /\ posts = 0
    /\ sent = NoPayload
    /\ status = 0
    /\ body = <<>>
    /\ wire = <<>>
    /\ nchunks = 0
    /\ collector = NewCollector
    /\ shadow = NewCollector
    /\ log = <<>>
    /\ aligned = TRUE
    /\ json = NoJson
    /\ result = NoResult
    /\ header_spec \in {None} \cup {Some(s) : s \in HeaderSpecs}
    /\ custom_headers = None
    /\ calls = NoCalls

\* Lines 52-56 and 68: from_env maps the configured string, if any, to the header map.
FromEnv ==
    /\ pc = "new"
    /\ custom_headers' = IF header_spec = None THEN None
                         ELSE Some(parse_custom_headers(header_spec[1]))
    /\ pc' = "idle"
    /\ UNCHANGED <<op, payload, posts, sent, status, body, wire, nchunks, collector, shadow, log, aligned, json, result>>
    /\ UNCHANGED <<header_spec, calls>>

NextHeaders ==
    \/ FromEnv
    \/ SupportsEmbeddings
    \/ CreateEmbeddings

SpecHeaders == InitHeaders /\ [][NextHeaders]_vars

\* ------------------------------------------------------------------ two calls
\* Two complete calls in flight on one provider.
Calls == {1, 2}

\* The chunks a call's stream may deliver, each a whole frame line.
CallChunks == {FrameLine(49), CrlfFrameLine(50), FrameLine(51)}

\* A call's stream: its chunks in order, then the end of the body (error = None)
\* or a failed read (error = Some(cause)).
CallInputs ==
    {[chunks |-> cs, error |-> e] :
        cs \in SeqsUpTo(CallChunks, MaxChunks), e \in {None} \cup {Some(c) : c \in Causes}}

\* The provider both calls share: its custom headers, built by from_env.
SharedHeaderSpec == Some(<<65, 61, 49>>)
SharedHeaders == Some(parse_custom_headers(SharedHeaderSpec[1]))

\* Line 110: the collector is a local of the call, made anew by each call.
\* Variant: one collector, that of the first call, serves every call.
CollectorShared(cs, c) == cs[1].collector
CollectorOf(cs, c) == cs[c].collector

NewCall(input) ==
    [pc |-> "idle", input |-> input, rest |-> input.chunks,
     collector |-> NewCollector, result |-> NoResult]

InitTwo ==
    /\ pc = "idle"
    /\ op = "none"
    /\ payload = NoPayload
    /\ posts = 0
    /\ sent = NoPayload
    /\ status = 0
    /\ body = <<>>
    /\ wire = <<>>
    /\ nchunks = 0
    /\ collector = NewCollector
    /\ shadow = NewCollector
    /\ log = <<>>
    /\ aligned = TRUE
    /\ json = NoJson
    /\ result = NoResult
    /\ header_spec = SharedHeaderSpec
    /\ custom_headers = SharedHeaders
    /\ calls \in [Calls -> {NewCall(i) : i \in CallInputs}]

mainVars == <<pc, op, payload, posts, sent, status, body, wire, nchunks, collector, shadow, log, aligned, json, result>>

\* Lines 104-111: call c has sent its request and holds a new collector.
CallStart(c) ==
    /\ calls[c].pc = "idle"
    /\ calls' = [calls EXCEPT ![c].pc = "streaming", ![c].collector = NewCollector]
    /\ UNCHANGED <<mainVars, header_spec, custom_headers>>

\* Lines 113-131: call c reads its next chunk.
CallRecv(c) ==
    /\ calls[c].pc = "streaming"
    /\ calls[c].rest # <<>>
    /\ calls' = [calls EXCEPT
           ![c].collector = ProcessChunk(Head(calls[c].rest),
                                         LoopState(CollectorOf(calls, c), <<>>)).collector,
           ![c].rest = Tail(calls[c].rest)]
    /\ UNCHANGED <<mainVars, header_spec, custom_headers>>

\* Line 114: the read after call c's last chunk fails.
CallChunkError(c) ==
    /\ calls[c].pc = "streaming"
    /\ calls[c].rest = <<>>
    /\ calls[c].input.error # None
    /\ calls' = [calls EXCEPT
           ![c].pc = "failed",
           ![c].result = OnChunkError(CollectorOf(calls, c), calls[c].input.error[1])]
    /\ UNCHANGED <<mainVars, header_spec, custom_headers>>

\* Lines 133-137 and 181-192: call c's stream ends and the call returns.
CallEnd(c) ==
    /\ calls[c].pc = "streaming"
    /\ calls[c].rest = <<>>
    /\ calls[c].input.error = None
    /\ calls' = [calls EXCEPT
           ![c].pc = "done",
           ![c].result = CompleteWith(build_response(CollectorOf(calls, c)))]
    /\ UNCHANGED <<mainVars, header_spec, custom_headers>>

NextTwo ==
    \/ \E c \in Calls : CallStart(c)
    \/ \E c \in Calls : CallRecv(c)
    \/ \E c \in Calls : CallChunkError(c)
    \/ \E c \in Calls : CallEnd(c)

SpecTwo == InitTwo /\ [][NextTwo]_vars

\* ------------------------------------------------------------------ properties
\* What a whole body holds, read off its lines without the loop of post.
BodyLines == lines(from_utf8_lossy(body))

PayloadOf(line) == SubSeq(trim(line), 7, Len(trim(line)))
IsDataLine(line) == starts_with(trim(line), DataPrefix)
IsSentinelLine(line) == IsDataLine(line) /\ PayloadOf(line) = Sentinel
IsFrameLine(line) == IsDataLine(line) /\ from_str(PayloadOf(line)).ok

\* The frames of the body, in the order of their lines.
RECURSIVE FramesOfLines(_, _)
FramesOfLines(ls, i) ==
    IF i > Len(ls) THEN <<>>
    ELSE (IF IsFrameLine(ls[i]) THEN <<from_str(PayloadOf(ls[i])).ch>> ELSE <<>>)
         \o FramesOfLines(ls, i + 1)

BodyFrames == FramesOfLines(BodyLines, 1)
BodyHasSentinel == \E i \in 1..Len(BodyLines) : IsSentinelLine(BodyLines[i])

\* The content fragments of a sequence of frames, concatenated in order.
RECURSIVE ContentOf(_, _)
ContentOf(fs, i) == IF i > Len(fs) THEN <<>> ELSE fs[i].content \o ContentOf(fs, i + 1)

\* The argument fragments of one tool-call index, concatenated in order.
RECURSIVE FragmentArgs(_, _, _)
FragmentArgs(ts, idx, i) ==
    IF i > Len(ts) THEN <<>>
    ELSE (IF ts[i].index = idx THEN ts[i].arguments ELSE <<>>) \o FragmentArgs(ts, idx, i + 1)

RECURSIVE ArgsOf(_, _, _)
ArgsOf(fs, idx, i) ==
    IF i > Len(fs) THEN <<>>
    ELSE FragmentArgs(fs[i].tool_calls, idx, 1) \o ArgsOf(fs, idx, i + 1)

HasFragment(fs, idx) ==
    \E i \in 1..Len(fs) : \E k \in 1..Len(fs[i].tool_calls) : fs[i].tool_calls[k].index = idx

IsPrefix(a, b) == Len(a) <= Len(b) /\ SubSeq(b, 1, Len(a)) = a

Hello == <<72, 101, 108, 108, 111>>

\* C1: once a line with the payload "[DONE]" has been observed, no later line, in
\* the same chunk or in a later one, is folded into the collector.
C1_NothingFoldedAfterSentinel ==
    \A i, j \in 1..Len(log) : (i < j /\ log[i] = "done") => log[j] # "frame"

C3_UnparsableLineDropped ==
    /\ (op = "complete" /\ pc \in {"streaming", "done"}) => collector = shadow
    /\ (op = "complete" /\ pc = "done") =>
           /\ result.tag = "Ok"
           /\ result = CompleteWith(build_response(shadow))

C3_Witness ==
    /\ pc = "done" /\ result.tag = "Ok"
    /\ \E i \in 1..Len(log) : /\ i + 2 <= Len(log)
                              /\ log[i] = "frame" /\ log[i + 1] = "skip" /\ log[i + 2] = "frame"

NoUsageInBody == \A i \in 1..Len(BodyFrames) : BodyFrames[i].usage.kind = "none"

C5_NoUsageIsZeroAndOk ==
    (op = "complete" /\ pc = "done" /\ NoUsageInBody) =>
        /\ result.tag = "Ok"
        /\ result.usage = [input_tokens |-> 0, output_tokens |-> 0, total_tokens |-> 0]

C5_Witness ==
    /\ op = "complete" /\ pc = "done" /\ NoUsageInBody
    /\ \E i \in 1..Len(log) : log[i] = "frame"
    /\ result.tag = "Ok" /\ result.usage.total_tokens = 0

\* C6: when the response to the completion POST carries the vendor's error object,
\* as a data line of the stream or as the plain JSON body, complete fails with an
\* Authentication error carrying the vendor's message.
CarriesVendorError ==
    \E i \in 1..Len(BodyLines) :
        \/ trim(BodyLines[i]) = ErrorText
        \/ IsDataLine(BodyLines[i]) /\ PayloadOf(BodyLines[i]) = ErrorText

C6_VendorErrorIsAuthentication ==
    (op = "complete" /\ pc = "done" /\ CarriesVendorError) =>
        result.tag = "Authentication" /\ result.message = BadKey

\* C7: when the directory-fetch JSON has a top-level "error" field, the fetch fails
\* with Authentication carrying the error's "message" string, "unknown error" when
\* that is absent or no string, whether or not a "data" field is there too.
HasKey(v, key) == v.t = "obj" /\ key \in DOMAIN v.o

VendorMessage(e) ==
    IF HasKey(e, "message") /\ e.o["message"].t = "str" THEN e.o["message"].s ELSE UnknownError

C7_ErrorFieldIsAuthentication ==
    (op = "fetch" /\ pc = "done" /\ HasKey(json, "error")) =>
        /\ result.tag = "Authentication"
        /\ result.message = VendorMessage(json.o["error"])

C7_Witness ==
    /\ op = "fetch" /\ pc = "done"
    /\ HasKey(json, "error") /\ HasKey(json, "data")
    /\ json.o["data"].t = "arr" /\ Len(json.o["data"].a) > 0
    /\ result.tag = "Authentication" /\ result.message = BadKey

\* C8: for a directory-fetch JSON with a "data" array and no "error" field the
\* fetch returns Some(list), the list ascending in lexicographic order and holding
\* exactly the string "id" values of the entries, each as often as it occurs.
Occurrences(xs, x) == Cardinality({i \in 1..Len(xs) : xs[i] = x})

EntriesWithId(data, id) ==
    Cardinality({i \in 1..Len(data) :
        HasKey(data[i], "id") /\ data[i].o["id"].t = "str" /\ data[i].o["id"].s = id})

Ascending(xs) == \A i \in 1..Len(xs) : \A k \in 1..Len(xs) : i < k => ~StrLess(xs[k], xs[i])

C8_SortedStringIds ==
    (op = "fetch" /\ pc = "done" /\ ~HasKey(json, "error")
        /\ HasKey(json, "data") /\ json.o["data"].t = "arr") =>
        /\ result.tag = "Ok"
        /\ Len(result.models) = 1
        /\ Ascending(result.models[1])
        /\ \A id \in {IdA, IdB, IdAB} \cup {result.models[1][i] : i \in 1..Len(result.models[1])} :
               Occurrences(result.models[1], id) = EntriesWithId(json.o["data"].a, id)

C8_Witness ==
    /\ op = "fetch" /\ pc = "done"
    /\ json = JObj("data" :> JArr(<<JObj("id" :> JStr(IdB)), JObj("id" :> JNum(5)),
                                    JObj("id" :> JStr(IdA))>>))
    /\ result = OkModels(Some(<<IdA, IdB>>))

\* C9: a completion call issues one POST and never a second one, and if the
\* connection fails or the HTTP status is not 2xx the call ends with a
\* transport-failure error and no result.
C9_OnePostAndNon2xxFails ==
    (op = "complete" /\ pc \in {"done", "failed"}) =>
        /\ posts <= 1
        /\ (posts = 1 /\ status \notin 200..299) => result.tag = "RequestFailed"

\* C10: every request body post sends has "stream" set to true, whatever the
\* payload held for that key, with the rest of the payload as it was; complete's
\* own payload is never changed once built.
C10_StreamForcedOnCopy ==
    /\ [](posts > 0 => /\ sent.stream = "true"
                       /\ sent.messages = payload.messages)
    /\ [][pc # "idle" => payload' = payload]_vars

C10_Witness ==
    /\ pc = "done" /\ op = "complete"
    /\ payload.stream = "false" /\ sent.stream = "true"

\* C11: supports_embeddings returns false, and create_embeddings fails with
\* ExecutionError for every input, never returns Ok and has made no request.
C11_EmbeddingsUnsupported ==
    /\ (op = "supports_embeddings" /\ pc = "done") => result = Boolean(FALSE)
    /\ (op = "create_embeddings" /\ pc = "done") =>
           /\ result.tag = "ExecutionError"
           /\ posts = 0 /\ status = 0 /\ sent = NoPayload /\ json = NoJson

C11_Witness ==
    /\ op = "create_embeddings" /\ pc = "done"
    /\ result = ExecutionError("DeepSeek does not support embeddings")

\* The pairs of the configured string, and the key and value of a pair that has '='.
PairsOf(s) == split(s, Comma)
HasEquals(pair) == \E i \in 1..Len(pair) : pair[i] = EqualsSign
FirstEquals(pair) == CHOOSE i \in 1..Len(pair) : pair[i] = EqualsSign /\ \A j \in 1..(i - 1) : pair[j] # EqualsSign
KeyOf(pair) == trim(SubSeq(pair, 1, FirstEquals(pair) - 1))
ValueOf(pair) == trim(SubSeq(pair, FirstEquals(pair) + 1, Len(pair)))
Parsed == pc # "new" /\ header_spec # None

\* C12 as stated: every pair with '=' yields its entry (trimmed key to trimmed
\* value), pairs without '=' are dropped, and the map has no other entry.
C12_EveryPairYieldsItsEntry ==
    Parsed =>
        LET pairs == PairsOf(header_spec[1])
            h == custom_headers[1]
        IN  /\ \A i \in 1..Len(pairs) : HasEquals(pairs[i]) =>
                   KeyOf(pairs[i]) \in DOMAIN h /\ h[KeyOf(pairs[i])] = ValueOf(pairs[i])
            /\ \A k \in DOMAIN h : \E i \in 1..Len(pairs) :
                   HasEquals(pairs[i]) /\ k = KeyOf(pairs[i]) /\ h[k] = ValueOf(pairs[i])

\* C12 amended: the keys of the map are the trimmed keys of the pairs with '=',
\* each mapped to the trimmed value of the last pair that has that key (cut at
\* its first '='); pairs without '=' add nothing and parsing never fails.
C12_LastPairOfAKeyWins ==
    Parsed =>
        LET pairs == PairsOf(header_spec[1])
            h == custom_headers[1]
        IN  /\ custom_headers # None
            /\ DOMAIN h = {KeyOf(pairs[i]) : i \in {j \in 1..Len(pairs) : HasEquals(pairs[j])}}
            /\ \A i \in 1..Len(pairs) :
                   (/\ HasEquals(pairs[i])
                    /\ \A j \in (i + 1)..Len(pairs) :
                           HasEquals(pairs[j]) => KeyOf(pairs[j]) # KeyOf(pairs[i]))
                   => h[KeyOf(pairs[i])] = ValueOf(pairs[i])

\* "A=,A=1": the key A given twice, first with the empty value.
C12_Witness ==
    /\ Parsed
    /\ header_spec = Some(<<65, 61, 44, 65, 61, 49>>)
    /\ custom_headers = Some(<<65>> :> <<49>>)

SentinelObserved == \E i \in 1..Len(log) : log[i] = "done"

\* C14: once a "data: [DONE]" line has been read, post goes on to build the Result
\* without awaiting a further chunk: no chunk is read after the sentinel.
C14_NoChunkAwaitedAfterSentinel ==
    [][SentinelObserved => nchunks' = nchunks]_vars

\* What the call returns when the whole body arrives as one chunk.
ResultOfWholeBody ==
    CompleteWith(build_response(ProcessChunk(body, LoopState(NewCollector, <<>>)).collector))

\* C15: the Result depends on the body bytes only, not on where the transport cuts
\* them: for a stream without sentinel, a call that has ended returns what it
\* returns when the whole body arrives in one chunk.
C15_ResultIndependentOfCuts ==
    (op = "complete" /\ pc = "done" /\ ~BodyHasSentinel) => result = ResultOfWholeBody

\* The call ended because a chunk of the response body failed to be read.
FailedMidStream == op = "complete" /\ pc = "failed" /\ status # 0

\* C16: when a chunk fails to be read, the call returns RequestFailed with the
\* cause text and no message, and from then on reads no chunk and keeps that result.
C16_ChunkErrorIsRequestFailed ==
    /\ [](FailedMidStream =>
            /\ result.tag = "RequestFailed"
            /\ result.cause \in Causes
            /\ DOMAIN result = {"tag", "cause"})
    /\ [][FailedMidStream => (nchunks' = nchunks /\ wire' = wire /\ result' = result)]_vars

\* A frame has been folded, bytes are still to come, and the read fails.
C16_Witness ==
    /\ FailedMidStream
    /\ \E i \in 1..Len(log) : log[i] = "frame"
    /\ collector.content # <<>>
    /\ wire # <<>>
    /\ result = RequestFailed("connection reset")

\* The response post returned, and the errors get_usage may give that are no UsageError.
ResponseOfCall == build_response(collector)
OtherErrors == {RequestFailed("bad response"), ExecutionError("bad response")}

\* C17: when get_usage fails with a UsageError, complete still succeeds, with the
\* message of response_to_message unchanged and the all-zero usage; a get_usage
\* error of another kind is returned by complete.
C17_UsageErrorIsNotFatal ==
    /\ (op = "complete" /\ pc = "done" /\ ~get_usage(ResponseOfCall).ok) =>
           /\ get_usage(ResponseOfCall).err.tag = "UsageError"
           /\ result.tag = "Ok"
           /\ result.message = response_to_message(ResponseOfCall).message
           /\ result.usage = UsageDefault
    /\ \A e \in OtherErrors :
           UsageOrDefault([ok |-> FALSE, err |-> e]) = [ok |-> FALSE, err |-> e]

\* The stream carried a malformed usage object after a tool call.
C17_Witness ==
    /\ op = "complete" /\ pc = "done"
    /\ collector.usage.kind = "malformed"
    /\ result.tag = "Ok" /\ result.usage = UsageDefault
    /\ result.message.tool_calls # <<>>

\* No line of the stream was folded into the collector.
NothingAccumulated == \A i \in 1..Len(log) : log[i] # "frame"

\* C18: when the stream ends, with or without [DONE], and no frame has been
\* accumulated, complete returns success with the empty message.
C18_EmptyStreamIsEmptyMessage ==
    (op = "complete" /\ pc = "done" /\ NothingAccumulated) =>
        /\ result.tag = "Ok"
        /\ result.message = [role |-> "assistant", content |-> <<>>, tool_calls |-> <<>>]

\* Every data line was malformed, and the sentinel came.
C18_Witness ==
    /\ op = "complete" /\ pc = "done" /\ NothingAccumulated
    /\ \E i \in 1..Len(log) : log[i] = "skip"
    /\ SentinelObserved
    /\ result.tag = "Ok" /\ result.message.content = <<>>

\* What a call returns when it runs alone on its stream.
RECURSIVE FoldChunks(_, _, _)
FoldChunks(c, chunks, i) ==
    IF i > Len(chunks) THEN c
    ELSE FoldChunks(ProcessChunk(chunks[i], LoopState(c, <<>>)).collector, chunks, i + 1)

RunAlone(input) ==
    IF input.error # None THEN RequestFailed(input.error[1])
    ELSE CompleteWith(build_response(FoldChunks(NewCollector, input.chunks, 1)))

\* C19: under every interleaving of two calls on one provider, a call that has
\* returned has the Result it gives when run alone on its stream, and no step
\* of a call changes the provider's configuration.
C19_CallsDoNotInterfere ==
    /\ [](\A c \in Calls : calls[c].pc \in {"done", "failed"} =>
              calls[c].result = RunAlone(calls[c].input))
    /\ [][custom_headers' = custom_headers /\ header_spec' = header_spec]_vars

\* Both calls have returned, each after its two chunks, with different content.
C19_Witness ==
    /\ \A c \in Calls : calls[c].pc = "done" /\ Len(calls[c].input.chunks) = MaxChunks
    /\ calls[1].result.message.content = Hel \o Lo
    /\ calls[2].result.message.content = Lo \o Hel
    /\ custom_headers = SharedHeaders

\* The fetch returned a list: the JSON has a "data" array and no "error" field.
ListReturned ==
    /\ op = "fetch" /\ pc = "done" /\ ~HasKey(json, "error")
    /\ HasKey(json, "data") /\ json.o["data"].t = "arr"
    /\ result.tag = "Ok" /\ result.models # None

StringIdEntries(data) ==
    {i \in 1..Len(data) : HasKey(data[i], "id") /\ data[i].o["id"].t = "str"}

\* C20 as stated: no identifier appears more than once in the returned list.
C20_NoIdentifierTwice ==
    ListReturned =>
        \A i, j \in 1..Len(result.models[1]) :
            i # j => result.models[1][i] # result.models[1][j]

\* C20 amended: the returned list is not deduplicated: it has one element for
\* every entry of "data" with a string id, so an id carried by several entries
\* appears that many times, next to each other in the sorted list.
C20_DuplicateIdsKept ==
    ListReturned =>
        LET ids == result.models[1]
            data == json.o["data"].a
        IN  /\ Len(ids) = Cardinality(StringIdEntries(data))
            /\ \A i \in StringIdEntries(data) :
                   Occurrences(ids, data[i].o["id"].s) =
                       Cardinality({j \in StringIdEntries(data) :
                                       data[j].o["id"].s = data[i].o["id"].s})
            /\ \A i, j \in 1..Len(ids) :
                   (i < j /\ ids[i] = ids[j]) => \A k \in i..j : ids[k] = ids[i]

\* The id "a" in two entries with "b" between them.
C20_Witness ==
    /\ op = "fetch" /\ pc = "done"
    /\ json = JObj("data" :> JArr(<<JObj("id" :> JStr(IdA)), JObj("id" :> JStr(IdB)),
                                    JObj("id" :> JStr(IdA))>>))
    /\ result = OkModels(Some(<<IdA, IdA, IdB>>))

====
